---- MODULE Spec2Model ----
(***************************************************************************)
(* State-machine model of vtkMRMLMarkupsShapeNode                          *)
(* (Shape/MRML/vtkMRMLMarkupsShapeNode.cxx): the shape kind, the control   *)
(* point store it calls, the measurement declarations, the radius          *)
(* mutators and the Tube pair-removal observer.                            *)
(*                                                                         *)
(* A C++ double is modelled bit for bit: an IEEE-754 binary64 value, its   *)
(* sign, exponent and 53-bit significand, with + - * / and sqrt rounded to *)
(* nearest, ties to even, signed zeros, subnormal numbers, infinities and  *)
(* NaN. The sign and the payload of a NaN are not kept. Every operation of *)
(* the source rounds once: a product is not fused into the sum it feeds.   *)
(***************************************************************************)
EXTENDS Integers, Sequences, FiniteSets, TLC

VARIABLES
  ShapeName,                      \* this->ShapeName
  RequiredNumberOfControlPoints,  \* this->RequiredNumberOfControlPoints
  MaximumNumberOfControlPoints,   \* this->MaximumNumberOfControlPoints
  Measurements,                   \* this->Measurements (ordered collection)
  ControlPoints,                  \* the control point store of the markups node
  RadiusMode,                     \* this->RadiusMode
  RemovingPairControlPoint,       \* this->RemovingPairControlPoint
  calls,                          \* number of calls of the radius API so far
  last                            \* history: the last operation and its outcome

vars == <<ShapeName, RequiredNumberOfControlPoints, MaximumNumberOfControlPoints,
          Measurements, ControlPoints, RadiusMode, RemovingPairControlPoint,
          calls, last>>

(***************************************************************************)
(* Bounds of the model.                                                    *)
(***************************************************************************)
\* Control points the host places in one store.
MaxPoints == 6
\* Control points of a store the radius API is called on.
MaxRadiusPoints == 4
\* Calls of the radius API in one run.
MaxCalls == 1
\* Control points whose position is unset at one time.
MaxUndefined == 1
\* Control points of a store DescribeDiskPointSpacing is asked about.
MaxDescribePoints == 3

(***************************************************************************)
(* Natural numbers of any size, for the significands of the doubles.       *)
(***************************************************************************)
\* "CHOOSE r \in {F(x) : x \in {e}} : TRUE" is F(e), written so where e is
\* used more than once in F.
\*
\* A natural number of any size is the sequence of its digits in base
\* Base, lowest first, without leading zero digits; <<>> is 0.
LimbBits == 14

Base == 16384

PowersOf2 == <<1, 2, 4, 8, 16, 32, 64, 128, 256, 512, 1024, 2048, 4096, 8192, 16384>>

Pow2(k) == PowersOf2[k + 1]

Max(a, b) == IF a >= b THEN a ELSE b

Min(a, b) == IF a <= b THEN a ELSE b

Limb(x, i) == IF i >= 1 /\ i <= Len(x) THEN x[i] ELSE 0

RECURSIVE BTrim(_)
BTrim(x) ==
  IF Len(x) = 0 THEN <<>>
  ELSE IF x[Len(x)] = 0 THEN BTrim(SubSeq(x, 1, Len(x) - 1))
  ELSE x

FromInt(n) == BTrim(<<n % Base, (n \div Base) % Base, n \div (Base * Base)>>)

\* The number of bits of one digit.
BitLenLimb(v) ==
  IF v >= 128
  THEN (IF v >= 2048
        THEN (IF v >= 8192 THEN 14 ELSE IF v >= 4096 THEN 13 ELSE 12)
        ELSE (IF v >= 512 THEN (IF v >= 1024 THEN 11 ELSE 10)
              ELSE IF v >= 256 THEN 9 ELSE 8))
  ELSE (IF v >= 8
        THEN (IF v >= 32 THEN (IF v >= 64 THEN 7 ELSE 6)
              ELSE IF v >= 16 THEN 5 ELSE 4)
        ELSE (IF v >= 2 THEN (IF v >= 4 THEN 3 ELSE 2) ELSE v))

BBitLen(x) ==
  IF Len(x) = 0 THEN 0 ELSE LimbBits * (Len(x) - 1) + BitLenLimb(x[Len(x)])

RECURSIVE CmpFrom(_, _, _)
CmpFrom(x, y, i) ==
  IF i = 0 THEN 0
  ELSE IF x[i] # y[i] THEN (IF x[i] < y[i] THEN -1 ELSE 1)
  ELSE CmpFrom(x, y, i - 1)

\* -1, 0 or 1 as x is below, equal to or above y.
BCmp(x, y) ==
  IF Len(x) # Len(y) THEN (IF Len(x) < Len(y) THEN -1 ELSE 1)
  ELSE CmpFrom(x, y, Len(x))

RECURSIVE AddFrom(_, _, _, _, _)
AddFrom(x, y, i, carry, acc) ==
  IF i > Len(x) /\ i > Len(y)
  THEN (IF carry = 0 THEN acc ELSE Append(acc, carry))
  ELSE AddFrom(x, y, i + 1, (Limb(x, i) + Limb(y, i) + carry) \div Base,
               Append(acc, (Limb(x, i) + Limb(y, i) + carry) % Base))

BAdd(x, y) == AddFrom(x, y, 1, 0, <<>>)

RECURSIVE SubFrom(_, _, _, _, _)
SubFrom(x, y, i, borrow, acc) ==
  IF i > Len(x) THEN BTrim(acc)
  ELSE SubFrom(x, y, i + 1,
               IF x[i] - Limb(y, i) - borrow < 0 THEN 1 ELSE 0,
               Append(acc, (x[i] - Limb(y, i) - borrow + Base) % Base))

\* x - y for x >= y.
BSub(x, y) == SubFrom(x, y, 1, 0, <<>>)

\* x * Base^q * p for p = 2^k, k below LimbBits, and c = Base / p.
ShlBy(x, q, p, c) ==
  BTrim([i \in 1..(Len(x) + q + 1) |->
           IF i <= q THEN 0
           ELSE ((Limb(x, i - q) * p) % Base) + (Limb(x, i - q - 1) \div c)])

\* x * 2^n.
BShl(x, n) ==
  IF Len(x) = 0 THEN <<>>
  ELSE ShlBy(x, n \div LimbBits, Pow2(n % LimbBits), Pow2(LimbBits - (n % LimbBits)))

\* x / (Base^q * p), rounded down, for p = 2^k, k below LimbBits, and
\* c = Base / p.
ShrBy(x, q, p, c) ==
  BTrim([i \in 1..(Len(x) - q) |->
           (Limb(x, i + q) \div p) + (Limb(x, i + q + 1) % p) * c])

\* x / 2^n, rounded down.
BShr(x, n) ==
  IF Len(x) <= n \div LimbBits THEN <<>>
  ELSE ShrBy(x, n \div LimbBits, Pow2(n % LimbBits), Pow2(LimbBits - (n % LimbBits)))

\* The bit of weight 2^n in x.
BBit(x, n) == (Limb(x, (n \div LimbBits) + 1) \div Pow2(n % LimbBits)) % 2

\* The n lowest bits of x are 0.
BLowZero(x, n) ==
  /\ \A i \in 1..(n \div LimbBits) : Limb(x, i) = 0
  /\ (Limb(x, (n \div LimbBits) + 1) % Pow2(n % LimbBits)) = 0

RECURSIVE CarryFrom(_, _, _, _)
CarryFrom(cols, i, carry, acc) ==
  IF i > Len(cols) THEN BTrim(acc)
  ELSE CarryFrom(cols, i + 1, (cols[i] + carry) \div Base,
                 Append(acc, (cols[i] + carry) % Base))

\* x * y, for x and y of at most 4 digits: digit k of the product is the sum
\* of the x[i] * y[k + 1 - i], and what the lower digits carry.
BMul(x, y) ==
  IF Len(x) = 0 \/ Len(y) = 0 THEN <<>>
  ELSE CarryFrom([k \in 1..(Len(x) + Len(y)) |->
                    Limb(x, 1) * Limb(y, k) + Limb(x, 2) * Limb(y, k - 1)
                    + Limb(x, 3) * Limb(y, k - 2) + Limb(x, 4) * Limb(y, k - 3)],
                 1, 0, <<>>)

RECURSIVE MulLimbFrom(_, _, _, _, _)
MulLimbFrom(x, d, i, carry, acc) ==
  IF i > Len(x) THEN (IF carry = 0 THEN acc ELSE Append(acc, carry))
  ELSE MulLimbFrom(x, d, i + 1, (x[i] * d + carry) \div Base,
                   Append(acc, (x[i] * d + carry) % Base))

\* x * d for one digit d.
MulLimb(x, d) == IF d = 0 THEN <<>> ELSE MulLimbFrom(x, d, 1, 0, <<>>)

\* The estimate of r / v from the two leading digits of r, for v with a
\* leading digit of at least Base / 2 and r < v * Base: at most 2 above the
\* quotient (Knuth, TAOCP 4.3.1, algorithm D).
Estimate(r, v) ==
  Min(Base - 1, (Limb(r, Len(v) + 1) * Base + Limb(r, Len(v))) \div v[Len(v)])

\* <<q, r - v * q>> for the largest q at or below the estimate q that leaves
\* a remainder.
RECURSIVE DigitFrom(_, _, _)
DigitFrom(r, v, q) ==
  CHOOSE res \in {IF BCmp(p, r) > 0 THEN DigitFrom(r, v, q - 1)
                  ELSE <<q, BSub(r, p)>> :
                    p \in {MulLimb(v, q)}} : TRUE

\* <<quotient digit, remainder>> of r by v.
Digit(r, v) ==
  IF BCmp(r, v) < 0 THEN <<0, r>> ELSE DigitFrom(r, v, Estimate(r, v))

\* Long division of the digits i..1 of u by v, with the remainder r of the
\* digits above them and the quotient q so far (lowest digit first).
RECURSIVE DivFrom(_, _, _, _, _)
DivFrom(u, v, i, r, q) ==
  IF i = 0 THEN <<BTrim(q), r>>
  ELSE CHOOSE res \in
         {DivFrom(u, v, i - 1, dr[2], <<dr[1]>> \o q) :
            dr \in {Digit(BTrim(<<u[i]>> \o r), v)}} : TRUE

\* <<quotient, remainder>> of u by v, v not 0 and with a leading digit of at
\* least Base / 2.
DivModFull(u, v) ==
  IF Len(u) < Len(v) THEN <<<<>>, u>>
  ELSE DivFrom(u, v, Len(u) - Len(v) + 1,
               BTrim(SubSeq(u, Len(u) - Len(v) + 2, Len(u))), <<>>)

\* <<quotient, remainder>> of u by v, v not 0. The remainder is the one of
\* u * 2^s by v * 2^s for the s that gives v a full leading digit.
BDivMod(u, v) ==
  DivModFull(BShl(u, LimbBits - BitLenLimb(v[Len(v)])),
             BShl(v, LimbBits - BitLenLimb(v[Len(v)])))

\* Largest k in lo..hi with k * k <= n.
RECURSIVE IsqrtIn(_, _, _)
IsqrtIn(n, lo, hi) ==
  IF lo >= hi THEN lo
  ELSE CHOOSE r \in {IF mid * mid <= n THEN IsqrtIn(n, mid, hi)
                     ELSE IsqrtIn(n, lo, mid - 1) :
                       mid \in {(lo + hi + 1) \div 2}} : TRUE

\* <<d, rem - (2 * root * Base + d) * d>> for the largest digit d at or below
\* the estimate d that leaves a remainder.
RECURSIVE RootDigitFrom(_, _, _)
RootDigitFrom(rem, root, d) ==
  CHOOSE res \in {IF BCmp(p, rem) > 0 THEN RootDigitFrom(rem, root, d - 1)
                  ELSE <<d, BSub(rem, p)>> :
                    p \in {MulLimb(BAdd(BShl(root, LimbBits + 1), <<d>>), d)}} : TRUE

\* The square root by digits, as in long division: the pairs of digits i..1
\* of x are still to come, root is the root of the digits above them and rem
\* what they leave. The next digit d is the largest one with
\* (2 * root * Base + d) * d <= rem * Base^2 + the next pair; it is at most
\* rem * Base^2 / (2 * root * Base), estimated as in the division.
RECURSIVE SqrtFrom(_, _, _, _)
SqrtFrom(x, i, root, rem) ==
  IF i = 0 THEN <<root, rem>>
  ELSE CHOOSE res \in
         {SqrtFrom(x, i - 1, BTrim(<<dr[1]>> \o root), dr[2]) :
            dr \in {RootDigitFrom(BTrim(<<x[2 * i - 1], x[2 * i]>> \o rem), root,
                      Estimate(BShr(BTrim(<<x[2 * i]>> \o rem), 1), root))}} : TRUE

\* <<root, x - root * root>> for the integer square root of x, rounded down;
\* x has an even number of digits and a leading pair of at least Base^2 / 4.
BSqrtRem(x) ==
  CHOOSE res \in
    {SqrtFrom(x, (Len(x) \div 2) - 1, <<r>>,
              FromInt(x[Len(x)] * Base + x[Len(x) - 1] - r * r)) :
       r \in {IsqrtIn(x[Len(x)] * Base + x[Len(x) - 1], Base \div 2, Base - 1)}} : TRUE

(***************************************************************************)
(* double: IEEE-754 binary64, round to nearest, ties to even.              *)
(***************************************************************************)
\* A finite double is (-1)^s * m * 2^e with m below 2^53: m has 53 bits
\* (a normal number), or e = MinExp and m has fewer (a subnormal number, 0
\* for m = <<>>). The largest finite double has e = MaxExp.
Precision == 53

MinExp == -1074

MaxExp == 971

Finite(s, e, m) == [kind |-> "finite", s |-> s, e |-> e, m |-> m]

Inf(s) == [kind |-> "inf", s |-> s, e |-> 0, m |-> <<>>]

NaN == [kind |-> "nan", s |-> 0, e |-> 0, m |-> <<>>]

Zero(s) == Finite(s, MinExp, <<>>)

IsNaN(a) == a.kind = "nan"

IsInf(a) == a.kind = "inf"

IsFinite(a) == a.kind = "finite"

IsZero(a) == a.kind = "finite" /\ a.m = <<>>

\* The double of sign s and size m * 2^e, m already rounded and of len bits:
\* too large a size is an infinity.
Packed(s, e, m, len) ==
  IF len = 0 THEN Zero(s)
  ELSE IF len > Precision THEN
    (IF e + 1 > MaxExp THEN Inf(s) ELSE Finite(s, e + 1, BShr(m, 1)))
  ELSE IF len = Precision /\ e > MaxExp THEN Inf(s)
  ELSE Finite(s, e, m)

\* The double nearest to (-1)^s * (n + f) * 2^e, where 0 <= f < 1 and
\* sticky tells f > 0; n has len bits, at least Precision + 1 if sticky. r
\* is the number of low bits of n that do not fit: they are dropped, and the
\* rest is raised by 1 if they are above half a unit, or half a unit and the
\* rest is odd.
RoundedBy(s, n, e, sticky, len, r) ==
  IF r <= 0
  THEN (IF len = 0 THEN Zero(s)
        ELSE Packed(s, e - Min(Precision - len, e - MinExp),
                    BShl(n, Min(Precision - len, e - MinExp)),
                    len + Min(Precision - len, e - MinExp)))
  ELSE IF BBit(n, r - 1) = 1 /\ (sticky \/ ~BLowZero(n, r - 1) \/ BBit(n, r) = 1)
  THEN CHOOSE d \in {Packed(s, e + r, m, BBitLen(m)) :
                       m \in {BAdd(BShr(n, r), <<1>>)}} : TRUE
  ELSE Packed(s, e + r, BShr(n, r), Max(len - r, 0))

RoundedOf(s, n, e, sticky, len) ==
  RoundedBy(s, n, e, sticky, len, Max(len - Precision, MinExp - e))

Rounded(s, n, e, sticky) == RoundedOf(s, n, e, sticky, BBitLen(n))

\* The double of an integer.
FromInteger(i) ==
  Rounded(IF i < 0 THEN 1 ELSE 0, FromInt(IF i < 0 THEN -i ELSE i), 0, FALSE)

\* The doubles of the integers the source and the inputs name most, converted
\* once.
SmallDoubles == [i \in (-16)..32 |-> FromInteger(i)]

D(i) == IF i \in DOMAIN SmallDoubles THEN SmallDoubles[i] ELSE FromInteger(i)

DNeg(a) == IF IsNaN(a) THEN NaN ELSE [a EXCEPT !.s = 1 - a.s]

\* hi + lo for finite doubles, neither 0, hi.e >= lo.e. Apart by more than
\* FarApart binary places, lo only tells on which side of hi the sum is.
FarApart == 64

SumOf(hi, lo) ==
  IF hi.e - lo.e > FarApart
  THEN Rounded(hi.s,
               IF hi.s = lo.s THEN BShl(hi.m, 3) ELSE BSub(BShl(hi.m, 3), <<1>>),
               hi.e - 3, TRUE)
  ELSE CHOOSE r \in
         {IF hi.s = lo.s THEN Rounded(hi.s, BAdd(x, lo.m), lo.e, FALSE)
          ELSE IF BCmp(x, lo.m) = 0 THEN Zero(0)
          ELSE IF BCmp(x, lo.m) > 0 THEN Rounded(hi.s, BSub(x, lo.m), lo.e, FALSE)
          ELSE Rounded(lo.s, BSub(lo.m, x), lo.e, FALSE) :
            x \in {BShl(hi.m, hi.e - lo.e)}} : TRUE

\* a + b: inf + -inf = NaN; -0 + -0 = -0, any other sum that is 0 is +0.
DAdd(a, b) ==
  IF IsNaN(a) \/ IsNaN(b) THEN NaN
  ELSE IF IsInf(a) /\ IsInf(b) THEN (IF a.s = b.s THEN a ELSE NaN)
  ELSE IF IsInf(a) THEN a
  ELSE IF IsInf(b) THEN b
  ELSE IF IsZero(a) /\ IsZero(b) THEN Zero(IF a.s = 1 /\ b.s = 1 THEN 1 ELSE 0)
  ELSE IF IsZero(a) THEN b
  ELSE IF IsZero(b) THEN a
  ELSE IF a.e >= b.e THEN SumOf(a, b)
  ELSE SumOf(b, a)

DSub(a, b) == DAdd(a, DNeg(b))

\* a * b: 0 * inf = NaN; the sign is the product of the signs.
DMul(a, b) ==
  IF IsNaN(a) \/ IsNaN(b) THEN NaN
  ELSE IF IsInf(a) \/ IsInf(b)
       THEN (IF IsZero(a) \/ IsZero(b) THEN NaN ELSE Inf((a.s + b.s) % 2))
  ELSE IF IsZero(a) \/ IsZero(b) THEN Zero((a.s + b.s) % 2)
  ELSE Rounded((a.s + b.s) % 2, BMul(a.m, b.m), a.e + b.e, FALSE)

\* a / b for finite doubles, neither 0: the quotient of a.m * 2^k by b.m,
\* of Precision + 3 bits or one more.
QuotientOf(a, b, k) ==
  CHOOSE r \in {Rounded((a.s + b.s) % 2, qr[1], a.e - b.e - k, qr[2] # <<>>) :
                  qr \in {BDivMod(BShl(a.m, k), b.m)}} : TRUE

\* 2^52, the significand of the doubles that are a power of 2.
TwoTo52 == <<0, 0, 0, 1024>>

\* a / b: x / 0 = inf, 0 / 0 = NaN, x / inf = 0, inf / inf = NaN; the sign
\* is the product of the signs, the sign of a zero included. A division by
\* a power of 2 changes the exponent only.
DDiv(a, b) ==
  IF IsNaN(a) \/ IsNaN(b) THEN NaN
  ELSE IF IsInf(a) THEN (IF IsInf(b) THEN NaN ELSE Inf((a.s + b.s) % 2))
  ELSE IF IsInf(b) THEN Zero((a.s + b.s) % 2)
  ELSE IF IsZero(b) THEN (IF IsZero(a) THEN NaN ELSE Inf((a.s + b.s) % 2))
  ELSE IF IsZero(a) THEN Zero((a.s + b.s) % 2)
  ELSE IF b.m = TwoTo52 THEN Rounded((a.s + b.s) % 2, a.m, a.e - b.e - (Precision - 1), FALSE)
  ELSE QuotientOf(a, b, Precision + 3 + BBitLen(b.m) - BBitLen(a.m))

\* The double of a decimal literal n / d of the source, such as 0.01.
Literal(n, d) == DDiv(D(n), D(d))

\* sqrt(a) for a finite double above 0: the root of a.m * 2^k, a number of
\* RootBits bits or one less, e - k even; the root has Precision + 3 bits.
RootBits == 112

RootOf(a, k) ==
  CHOOSE r \in {Rounded(0, rr[1], (a.e - k) \div 2, rr[2] # <<>>) :
                  rr \in {BSqrtRem(BShl(a.m, k))}} : TRUE

\* std::sqrt: NaN below 0, sqrt(-0) = -0.
DSqrt(a) ==
  IF IsNaN(a) THEN NaN
  ELSE IF IsZero(a) THEN a
  ELSE IF a.s = 1 THEN NaN
  ELSE IF IsInf(a) THEN a
  ELSE RootOf(a, RootBits - BBitLen(a.m) - ((a.e + BBitLen(a.m)) % 2))

\* -1, 0 or 1 for a double that is not NaN; 0 for both zeros.
SignOf(a) == IF IsZero(a) THEN 0 ELSE 1 - 2 * a.s

\* The sizes of two doubles of one sign, neither NaN nor 0, compared.
SizeCmp(a, b) ==
  IF IsInf(a) \/ IsInf(b)
  THEN (IF IsInf(a) /\ IsInf(b) THEN 0 ELSE IF IsInf(a) THEN 1 ELSE -1)
  ELSE IF a.e # b.e THEN (IF a.e < b.e THEN -1 ELSE 1)
  ELSE BCmp(a.m, b.m)

\* -1, 0 or 1 as a is below, equal to or above b, neither NaN.
Cmp(a, b) ==
  IF SignOf(a) # SignOf(b) THEN (IF SignOf(a) < SignOf(b) THEN -1 ELSE 1)
  ELSE IF SignOf(a) = 0 THEN 0
  ELSE SignOf(a) * SizeCmp(a, b)

\* Every comparison with a NaN operand is false.
DLt(a, b) == ~IsNaN(a) /\ ~IsNaN(b) /\ Cmp(a, b) < 0

DEq(a, b) == ~IsNaN(a) /\ ~IsNaN(b) /\ Cmp(a, b) = 0

DLe(a, b) == ~IsNaN(a) /\ ~IsNaN(b) /\ Cmp(a, b) <= 0

DGt(a, b) == DLt(b, a)

DGe(a, b) == DLe(b, a)
(***************************************************************************)
(* points                                                                  *)
(***************************************************************************)
Vec(x, y, z) == <<D(x), D(y), D(z)>>

Zero3 == Vec(0, 0, 0)

Squared(x) == DMul(x, x)

\* vtkMath::Distance2BetweenPoints
Distance2BetweenPoints(p, q) ==
  DAdd(DAdd(Squared(DSub(p[1], q[1])), Squared(DSub(p[2], q[2]))),
       Squared(DSub(p[3], q[3])))

(***************************************************************************)
(* The control point store (vtkMRMLMarkupsNode, the host): an ordered      *)
(* sequence of control points, index n of the code being element n + 1.    *)
(***************************************************************************)
CP(pos, defined) == [pos |-> pos, defined |-> defined]

GetNumberOfControlPoints(pts) == Len(pts)

GetNumberOfDefinedControlPoints(pts) ==
  Cardinality({i \in DOMAIN pts : pts[i].defined})

GetNumberOfUndefinedControlPoints(pts) ==
  Cardinality({i \in DOMAIN pts : ~pts[i].defined})

ControlPointExists(pts, n) == n >= 0 /\ n < Len(pts)

\* A missing index reads as the origin (the caller's array is left zeroed).
GetNthControlPointPositionWorld(pts, n) ==
  IF ControlPointExists(pts, n) THEN pts[n + 1].pos ELSE Zero3

\* A missing index is not written; a written position is a defined one.
SetNthControlPointPositionWorld(pts, n, pos) ==
  IF ControlPointExists(pts, n) THEN [pts EXCEPT ![n + 1] = CP(pos, TRUE)] ELSE pts

EraseNth(pts, n) == SubSeq(pts, 1, n) \o SubSeq(pts, n + 2, Len(pts))

\* The first index whose squared distance to pos is strictly below every
\* earlier one; -1 on an empty store. d2 is the squared distance of index i.
RECURSIVE ClosestFrom(_, _, _, _, _)
RECURSIVE Closer(_, _, _, _, _, _)
Closer(pts, pos, i, best, bestD2, d2) ==
  IF best < 0 \/ DLt(d2, bestD2)
  THEN ClosestFrom(pts, pos, i + 1, i, d2)
  ELSE ClosestFrom(pts, pos, i + 1, best, bestD2)

ClosestFrom(pts, pos, i, best, bestD2) ==
  IF i >= Len(pts) THEN best
  ELSE Closer(pts, pos, i, best, bestD2,
              Distance2BetweenPoints(pos, pts[i + 1].pos))

GetClosestControlPointIndexToPositionWorld(pts, pos) ==
  ClosestFrom(pts, pos, 0, -1, D(0))

(***************************************************************************)
(* The node: a record of the fields of vtkMRMLMarkupsShapeNode, with the   *)
(* outcome of the running call (out) and the trace of the observer's       *)
(* activations during it (log, depth).                                     *)
(***************************************************************************)
Kinds == {"Sphere", "Ring", "Disk", "Tube"}

Modes == {"Centered", "Circumferential"}

\* SetDisplayCoefficient(0.01): the double nearest to 1/100.
DisplayCoefficient == Literal(1, 100)

Measurement(name, units, coefficient, enabled) ==
  [name |-> name, units |-> units, coefficient |-> coefficient, enabled |-> enabled]

RemoveAllMeasurements(meas) == <<>>

ForceDiskMeasurements(meas) ==
  LET addLengthMeasurement(m, name, enabled) ==
        Append(m, Measurement(name, "mm", D(1), enabled))
      addAreaMeasurement(m, name) ==
        Append(m, Measurement(name, "cm2", DisplayCoefficient, FALSE))
      m0 == RemoveAllMeasurements(meas)
      m1 == addLengthMeasurement(m0, "innerRadius", TRUE)
      m2 == addLengthMeasurement(m1, "outerRadius", TRUE)
      m3 == addLengthMeasurement(m2, "width", FALSE)
      m4 == addAreaMeasurement(m3, "area")
      m5 == addAreaMeasurement(m4, "innerArea")
  IN addAreaMeasurement(m5, "outerArea")

ForceRingMeasurements(meas) ==
  LET m0 == RemoveAllMeasurements(meas)
      m1 == Append(m0, Measurement("radius", "mm", D(1), TRUE))
  IN Append(m1, Measurement("area", "cm2", DisplayCoefficient, FALSE))

ForceSphereMeasurements(meas) ==
  LET m0 == RemoveAllMeasurements(meas)
      m1 == Append(m0, Measurement("radius", "mm", D(1), TRUE))
      m2 == Append(m1, Measurement("area", "cm2", DisplayCoefficient, FALSE))
  IN Append(m2, Measurement("volume", "cm3", DisplayCoefficient, FALSE))

\* Mutant: the previous declarations are not removed first.
ForceTubeMeasurements_KeepsPrevious(meas) ==
  LET m1 == Append(meas, Measurement("area", "cm2", DisplayCoefficient, FALSE))
  IN Append(m1, Measurement("volume", "cm3", DisplayCoefficient, TRUE))

ForceTubeMeasurements(meas) ==
  LET m0 == RemoveAllMeasurements(meas)
      m1 == Append(m0, Measurement("area", "cm2", DisplayCoefficient, FALSE))
  IN Append(m1, Measurement("volume", "cm3", DisplayCoefficient, TRUE))

(***************************************************************************)
(* Removal and the PointPositionUndefinedEvent observer. The store raises  *)
(* the event synchronously, inside the removal, when the point that left   *)
(* had a defined position; the observer may remove the pair partner, which *)
(* raises the event again inside the observer.                             *)
(***************************************************************************)
LogEntry(in, index, branch, res) ==
  [depth |-> in.depth + 1, index |-> index, branch |-> branch,
   kind |-> in.kind, undefinedIn |-> GetNumberOfUndefinedControlPoints(in.pts),
   flagIn |-> in.flag, countIn |-> Len(in.pts),
   flagOut |-> res.flag, countOut |-> Len(res.pts)]

\* The observer's result res, returned to the caller of depth in.depth, with
\* this activation appended to the trace.
Return(in, index, branch, res) ==
  [res EXCEPT !.depth = in.depth,
              !.log = Append(@, LogEntry(in, index, branch, res))]

RECURSIVE RemoveNthControlPoint(_, _)

\* Mutant: an odd index removes the point at the same index, not its partner
\* at removedIndex - 1.
OnPointPositionUndefined_OddRemovesNext(N, removedIndex) ==
  LET in == [N EXCEPT !.depth = @ + 1]
  IN IF N.kind # "Tube" \/ GetNumberOfUndefinedControlPoints(N.pts) > 0
     THEN Return(N, removedIndex, "ignored", N)
     ELSE IF N.flag \/ GetNumberOfControlPoints(N.pts) = 0
     THEN Return(N, removedIndex, "guard", [N EXCEPT !.flag = FALSE])
     ELSE IF removedIndex % 2 = 0
     THEN IF GetNumberOfControlPoints(N.pts) > removedIndex
          THEN Return(N, removedIndex, "even",
                      RemoveNthControlPoint([in EXCEPT !.flag = TRUE], removedIndex))
          ELSE Return(N, removedIndex, "trailing", [N EXCEPT !.flag = FALSE])
     ELSE Return(N, removedIndex, "odd",
                 RemoveNthControlPoint([in EXCEPT !.flag = TRUE], removedIndex))

\* Mutant: the guard returns without clearing RemovingPairControlPoint.
OnPointPositionUndefined_GuardKeepsFlag(N, removedIndex) ==
  LET in == [N EXCEPT !.depth = @ + 1]
  IN IF N.kind # "Tube" \/ GetNumberOfUndefinedControlPoints(N.pts) > 0
     THEN Return(N, removedIndex, "ignored", N)
     ELSE IF N.flag \/ GetNumberOfControlPoints(N.pts) = 0
     THEN Return(N, removedIndex, "guard", N)
     ELSE IF removedIndex % 2 = 0
     THEN IF GetNumberOfControlPoints(N.pts) > removedIndex
          THEN Return(N, removedIndex, "even",
                      RemoveNthControlPoint([in EXCEPT !.flag = TRUE], removedIndex))
          ELSE Return(N, removedIndex, "trailing", [N EXCEPT !.flag = FALSE])
     ELSE Return(N, removedIndex, "odd",
                 RemoveNthControlPoint([in EXCEPT !.flag = TRUE], removedIndex - 1))

\* Mutant: the guard does not look at RemovingPairControlPoint, so the
\* activation raised by the compensating removal removes a point as well.
OnPointPositionUndefined_NoFlagGuard(N, removedIndex) ==
  LET in == [N EXCEPT !.depth = @ + 1]
  IN IF N.kind # "Tube" \/ GetNumberOfUndefinedControlPoints(N.pts) > 0
     THEN Return(N, removedIndex, "ignored", N)
     ELSE IF GetNumberOfControlPoints(N.pts) = 0
     THEN Return(N, removedIndex, "guard", [N EXCEPT !.flag = FALSE])
     ELSE IF removedIndex % 2 = 0
     THEN IF GetNumberOfControlPoints(N.pts) > removedIndex
          THEN Return(N, removedIndex, "even",
                      RemoveNthControlPoint([in EXCEPT !.flag = TRUE], removedIndex))
          ELSE Return(N, removedIndex, "trailing", [N EXCEPT !.flag = FALSE])
     ELSE Return(N, removedIndex, "odd",
                 RemoveNthControlPoint([in EXCEPT !.flag = TRUE], removedIndex - 1))

\* Mutant: an even index removes the point before it, not the one that
\* took its place.
OnPointPositionUndefined_EvenRemovesPrevious(N, removedIndex) ==
  LET in == [N EXCEPT !.depth = @ + 1]
  IN IF N.kind # "Tube" \/ GetNumberOfUndefinedControlPoints(N.pts) > 0
     THEN Return(N, removedIndex, "ignored", N)
     ELSE IF N.flag \/ GetNumberOfControlPoints(N.pts) = 0
     THEN Return(N, removedIndex, "guard", [N EXCEPT !.flag = FALSE])
     ELSE IF removedIndex % 2 = 0
     THEN IF GetNumberOfControlPoints(N.pts) > removedIndex
          THEN Return(N, removedIndex, "even",
                      RemoveNthControlPoint([in EXCEPT !.flag = TRUE], removedIndex - 1))
          ELSE Return(N, removedIndex, "trailing", [N EXCEPT !.flag = FALSE])
     ELSE Return(N, removedIndex, "odd",
                 RemoveNthControlPoint([in EXCEPT !.flag = TRUE], removedIndex - 1))

OnPointPositionUndefined(N, removedIndex) ==
  LET in == [N EXCEPT !.depth = @ + 1]
  IN IF N.kind # "Tube" \/ GetNumberOfUndefinedControlPoints(N.pts) > 0
     THEN Return(N, removedIndex, "ignored", N)
     ELSE IF N.flag \/ GetNumberOfControlPoints(N.pts) = 0
     THEN Return(N, removedIndex, "guard", [N EXCEPT !.flag = FALSE])
     ELSE IF removedIndex % 2 = 0
     THEN IF GetNumberOfControlPoints(N.pts) > removedIndex
          THEN Return(N, removedIndex, "even",
                      RemoveNthControlPoint([in EXCEPT !.flag = TRUE], removedIndex))
          ELSE Return(N, removedIndex, "trailing", [N EXCEPT !.flag = FALSE])
     ELSE Return(N, removedIndex, "odd",
                 RemoveNthControlPoint([in EXCEPT !.flag = TRUE], removedIndex - 1))

RemoveNthControlPoint(N, n) ==
  IF ~ControlPointExists(N.pts, n) THEN N
  ELSE LET erased == [N EXCEPT !.pts = EraseNth(@, n)]
       IN IF N.pts[n + 1].defined
          THEN OnPointPositionUndefined(erased, n)
          ELSE erased

RemoveAllControlPoints(N) == [N EXCEPT !.pts = <<>>]

\* The position of point n becomes undefined, the point stays in the store.
UnsetNthControlPointPosition(N, n) ==
  IF ~ControlPointExists(N.pts, n) \/ ~N.pts[n + 1].defined THEN N
  ELSE OnPointPositionUndefined(
         [N EXCEPT !.pts[n + 1].defined = FALSE], n)

AddControlPoint(N, pos) ==
  IF N.max >= 0 /\ GetNumberOfControlPoints(N.pts) >= N.max
  THEN [N EXCEPT !.out = "refused"]
  ELSE [N EXCEPT !.pts = Append(@, CP(pos, TRUE)), !.out = "ok"]

(***************************************************************************)
(* SetShapeName                                                            *)
(***************************************************************************)
RECURSIVE TruncateToMaximum(_)
TruncateToMaximum(N) ==
  IF GetNumberOfControlPoints(N.pts) > N.max
  THEN TruncateToMaximum(RemoveNthControlPoint(N, N.max))
  ELSE N

\* Mutant: the excess is removed from the head of the store.
RECURSIVE TruncateFromHead(_)
TruncateFromHead(N) ==
  IF GetNumberOfControlPoints(N.pts) > N.max
  THEN TruncateFromHead(RemoveNthControlPoint(N, 0))
  ELSE N

ClampControlPoints_FromHead(N) ==
  IF N.max > 0 THEN TruncateFromHead(N) ELSE RemoveAllControlPoints(N)

\* The statements after the switch, reached by the cases that break.
ClampControlPoints(N) ==
  IF N.max > 0 THEN TruncateToMaximum(N) ELSE RemoveAllControlPoints(N)

\* The Tube case has no break: it runs into the default case, which reports
\* "Unknown shape." and returns before the control points are touched.
SetShapeName(N, shapeName) ==
  LET N1 == [N EXCEPT !.kind = shapeName]
  IN CASE shapeName = "Sphere" ->
            ClampControlPoints([N1 EXCEPT !.req = 2, !.max = 2, !.out = "ok",
                                  !.meas = ForceSphereMeasurements(@)])
       [] shapeName = "Ring" ->
            ClampControlPoints([N1 EXCEPT !.req = 3, !.max = 3, !.out = "ok",
                                  !.meas = ForceRingMeasurements(@)])
       [] shapeName = "Disk" ->
            ClampControlPoints([N1 EXCEPT !.req = 3, !.max = 3, !.out = "ok",
                                  !.meas = ForceDiskMeasurements(@)])
       [] shapeName = "Tube" ->
            [N1 EXCEPT !.req = -1, !.max = -1, !.out = "Unknown shape.",
                       !.meas = ForceTubeMeasurements(@)]
       [] OTHER -> [N1 EXCEPT !.out = "Unknown shape."]

(***************************************************************************)
(* Disk spacing and the radius mutators                                    *)
(***************************************************************************)
\* DescribeDiskPointSpacing: ok is the returned bool, the other fields the
\* out-parameters (left at the caller's zero initialisation on failure).
DescribeFailed ==
  [ok |-> FALSE, closestPoint |-> Zero3, farthestPoint |-> Zero3,
   innerRadius |-> D(0), outerRadius |-> D(0)]

\* DescribeDiskPointSpacing with the strict comparison: on a tie the point
\* at index 2 is the closest one.
DiskSpacing_TieTakesSecond(p2, p3, distance2, distance3) ==
  IF DLt(distance2, distance3)
  THEN [ok |-> TRUE, closestPoint |-> p2, farthestPoint |-> p3,
        innerRadius |-> distance2, outerRadius |-> distance3]
  ELSE [ok |-> TRUE, closestPoint |-> p3, farthestPoint |-> p2,
        innerRadius |-> distance3, outerRadius |-> distance2]

\* The answer for the distances of p2 and p3 from the center.
DiskSpacing(p2, p3, distance2, distance3) ==
  IF DLe(distance2, distance3)
  THEN [ok |-> TRUE, closestPoint |-> p2, farthestPoint |-> p3,
        innerRadius |-> distance2, outerRadius |-> distance3]
  ELSE [ok |-> TRUE, closestPoint |-> p3, farthestPoint |-> p2,
        innerRadius |-> distance3, outerRadius |-> distance2]

DescribeDiskPointSpacing(N) ==
  IF N.kind # "Disk" THEN DescribeFailed
  ELSE IF GetNumberOfDefinedControlPoints(N.pts) # 3 THEN DescribeFailed
  ELSE DiskSpacing(GetNthControlPointPositionWorld(N.pts, 1),
                   GetNthControlPointPositionWorld(N.pts, 2),
                   DSqrt(Distance2BetweenPoints(
                           GetNthControlPointPositionWorld(N.pts, 0),
                           GetNthControlPointPositionWorld(N.pts, 1))),
                   DSqrt(Distance2BetweenPoints(
                           GetNthControlPointPositionWorld(N.pts, 0),
                           GetNthControlPointPositionWorld(N.pts, 2))))

\* result[i] = p1[i] + (rp2[i] * factor)
Scaled(p1, rp2, factor) ==
  <<DAdd(p1[1], DMul(rp2[1], factor)),
    DAdd(p1[2], DMul(rp2[2], factor)),
    DAdd(p1[3], DMul(rp2[3], factor))>>

\* factor = (1.0 + (difference / lineLength))
Factor(difference, lineLength) == DAdd(D(1), DDiv(difference, lineLength))

FindLinearCoordinateByDistance(p1, p2, difference) ==
  Scaled(p1, <<DSub(p2[1], p1[1]), DSub(p2[2], p1[2]), DSub(p2[3], p1[3])>>,
         Factor(difference, DSqrt(Distance2BetweenPoints(p1, p2))))

Reject(N, why) == [N EXCEPT !.out = why]

Wrote(N, pts) == [N EXCEPT !.out = "ok", !.pts = pts]

\* SetRadius, the writes: point 1 is written (pts1), then point 0 in
\* Circumferential mode.
SetRadiusWrite(N, rasP1, rasP2, difference, pts1) ==
  IF N.mode = "Circumferential"
  THEN Wrote(N, SetNthControlPointPositionWorld(pts1, 0,
                  FindLinearCoordinateByDistance(rasP2, rasP1, difference)))
  ELSE Wrote(N, pts1)

\* SetRadius, from the difference of the radii on.
SetRadiusShift(N, rasP1, rasP2, difference) ==
  SetRadiusWrite(N, rasP1, rasP2, difference,
    SetNthControlPointPositionWorld(N.pts, 1,
      FindLinearCoordinateByDistance(rasP1, rasP2, difference)))

\* SetRadius, from the length of the line on.
SetRadiusResize(N, radius, rasP1, rasP2, lineLength) ==
  SetRadiusShift(N, rasP1, rasP2,
    DSub(radius, IF N.mode = "Centered" THEN lineLength
                 ELSE DDiv(lineLength, D(2))))

SetRadius(N, radius) ==
  IF N.kind = "Disk"
  THEN Reject(N, "Current shape is a disk. Use SetInnerRadius and SetOuterRadius")
  ELSE IF DLe(radius, D(0)) THEN Reject(N, "Radius must be greater than zero.")
  ELSE SetRadiusResize(N, radius,
         GetNthControlPointPositionWorld(N.pts, 0),
         GetNthControlPointPositionWorld(N.pts, 1),
         DSqrt(Distance2BetweenPoints(GetNthControlPointPositionWorld(N.pts, 0),
                                      GetNthControlPointPositionWorld(N.pts, 1))))

\* The control point nearest to point is moved along the line from the
\* center through point, by difference.
MoveDiskPoint(N, point, difference) ==
  Wrote(N, SetNthControlPointPositionWorld(N.pts,
             GetClosestControlPointIndexToPositionWorld(N.pts, point),
             FindLinearCoordinateByDistance(
               GetNthControlPointPositionWorld(N.pts, 0), point, difference)))

\* SetInnerRadius without the comparison against the outer radius.
SetInnerRadiusShift_NoOrderCheck(N, radius, d) ==
  IF ~d.ok THEN Reject(N, "Point proximity description failure.")
  ELSE MoveDiskPoint(N, d.closestPoint, DSub(radius, d.innerRadius))

\* SetInnerRadius, from the answer d of DescribeDiskPointSpacing on.
SetInnerRadiusShift(N, radius, d) ==
  IF ~d.ok THEN Reject(N, "Point proximity description failure.")
  ELSE IF DGe(radius, d.outerRadius)
  THEN Reject(N, "Inner radius must be less than outer radius.")
  ELSE MoveDiskPoint(N, d.closestPoint, DSub(radius, d.innerRadius))

SetInnerRadius(N, radius) ==
  IF N.kind # "Disk" THEN Reject(N, "Current shape is not a disk. Use SetRadius.")
  ELSE IF DLe(radius, D(0)) THEN Reject(N, "Radius must be greater than zero.")
  ELSE SetInnerRadiusShift(N, radius, DescribeDiskPointSpacing(N))

\* SetOuterRadius, from the answer d of DescribeDiskPointSpacing on.
SetOuterRadiusShift(N, radius, d) ==
  IF ~d.ok THEN Reject(N, "Point proximity description failure.")
  ELSE IF DLe(radius, d.innerRadius)
  THEN Reject(N, "Outer radius must be greater than inner radius.")
  ELSE MoveDiskPoint(N, d.farthestPoint, DSub(radius, d.outerRadius))

SetOuterRadius(N, radius) ==
  IF N.kind # "Disk" THEN Reject(N, "Current shape is not a disk. Use SetRadius.")
  ELSE IF DLe(radius, D(0)) THEN Reject(N, "Radius must be greater than zero.")
  ELSE SetOuterRadiusShift(N, radius, DescribeDiskPointSpacing(N))

\* The pair of control point n: p1 at the even index, p2 at the odd one.
PairP1(N, n) ==
  IF n % 2 = 0 THEN GetNthControlPointPositionWorld(N.pts, n)
  ELSE GetNthControlPointPositionWorld(N.pts, n - 1)

PairP2(N, n) ==
  IF n % 2 = 0 THEN GetNthControlPointPositionWorld(N.pts, n + 1)
  ELSE GetNthControlPointPositionWorld(N.pts, n)

\* -1.0 is the failure value.
GetRadiusAtNthControlPoint(N, n) ==
  IF N.kind # "Tube" THEN D(-1)
  ELSE IF \/ n < 0
          \/ GetNumberOfUndefinedControlPoints(N.pts) > 0
          \/ GetNumberOfDefinedControlPoints(N.pts) < 4
          \/ GetNumberOfDefinedControlPoints(N.pts) % 2 # 0
          \/ n >= GetNumberOfDefinedControlPoints(N.pts)
  THEN D(-1)
  ELSE DDiv(DSqrt(Distance2BetweenPoints(PairP1(N, n), PairP2(N, n))), D(2))

\* SetRadiusAtNthControlPoint moving the requested point only, its partner
\* staying where it is.
SetRadiusAtNthWrite_MovesOnePoint(N, n, p1New, p2New) ==
  IF n % 2 = 0
  THEN Wrote(N, SetNthControlPointPositionWorld(N.pts, n, p1New))
  ELSE Wrote(N, SetNthControlPointPositionWorld(N.pts, n, p2New))

\* SetRadiusAtNthControlPoint, the writes: control point n, then its partner.
SetRadiusAtNthWrite(N, n, p1New, p2New) ==
  IF n % 2 = 0
  THEN Wrote(N, SetNthControlPointPositionWorld(
                  SetNthControlPointPositionWorld(N.pts, n, p1New),
                  n + 1, p2New))
  ELSE Wrote(N, SetNthControlPointPositionWorld(
                  SetNthControlPointPositionWorld(N.pts, n, p2New),
                  n - 1, p1New))

\* SetRadiusAtNthControlPoint, from the middle of the pair on.
SetRadiusAtNthShift(N, n, p1, p2, middlePoint, radiusDifference) ==
  SetRadiusAtNthWrite(N, n,
    FindLinearCoordinateByDistance(middlePoint, p1, radiusDifference),
    FindLinearCoordinateByDistance(middlePoint, p2, radiusDifference))

\* SetRadiusAtNthControlPoint, from the current radius on. The return on
\* currentRadius <= 0 prints nothing: "No current radius." is the model's
\* name for it.
SetRadiusAtNthResize(N, n, radius, p1, p2, currentRadius) ==
  IF DLe(currentRadius, D(0)) THEN Reject(N, "No current radius.")
  ELSE SetRadiusAtNthShift(N, n, p1, p2,
         <<DDiv(DAdd(p1[1], p2[1]), D(2)),
           DDiv(DAdd(p1[2], p2[2]), D(2)),
           DDiv(DAdd(p1[3], p2[3]), D(2))>>,
         DSub(radius, currentRadius))

SetRadiusAtNthControlPoint(N, n, radius) ==
  IF DLe(radius, D(0)) THEN Reject(N, "Requested radius must be greater than 0.0.")
  ELSE SetRadiusAtNthResize(N, n, radius, PairP1(N, n), PairP2(N, n),
                            GetRadiusAtNthControlPoint(N, n))

SetRadiusMode(N, mode) == [N EXCEPT !.mode = mode, !.out = "ok"]

(***************************************************************************)
(* Inputs                                                                  *)
(***************************************************************************)
\* Two positions 3 * sqrt(2) apart, not along an axis: their distance is no
\* double, so that the square root, the quotient by it and the products of
\* the shift are all rounded.
InputPoints == {Vec(0, 0, 0), Vec(3, 3, 0)}

\* A refused radius, one below and one above the distance of InputPoints.
InputRadii == {0, 4, 20}

InputShapeNames == Kinds \cup {"Unknown"}

(***************************************************************************)
(* The state machine                                                       *)
(***************************************************************************)
\* The node as the running call finds it.
Self ==
  [kind |-> ShapeName, req |-> RequiredNumberOfControlPoints,
   max |-> MaximumNumberOfControlPoints, meas |-> Measurements,
   pts |-> ControlPoints, mode |-> RadiusMode, flag |-> RemovingPairControlPoint,
   out |-> "", log |-> <<>>, depth |-> 0]

\* The member initialisers, before the constructor body runs.
Blank ==
  [kind |-> "Sphere", req |-> 0, max |-> 0, meas |-> <<>>, pts |-> <<>>,
   mode |-> "Centered", flag |-> FALSE, out |-> "", log |-> <<>>, depth |-> 0]

\* The constructor: SetShapeName(Sphere) on the new node.
New == [SetShapeName(Blank, "Sphere") EXCEPT !.log = <<>>]

\* The record of a call: the operation, the shape kind it found (was), its
\* outcome (out) and the observer's activations during it (log); kind, n and r
\* are its arguments, n and r being kept for an accepted call only (a refused
\* call is told by out).
Called(op, kind, n, r, N) ==
  [op |-> op, was |-> ShapeName, kind |-> kind,
   n |-> IF N.out = "ok" THEN n ELSE 0,
   r |-> IF N.out = "ok" THEN r ELSE 0,
   out |-> N.out, log |-> N.log]

Holds(N) ==
  /\ ShapeName = N.kind
  /\ RequiredNumberOfControlPoints = N.req
  /\ MaximumNumberOfControlPoints = N.max
  /\ Measurements = N.meas
  /\ ControlPoints = N.pts
  /\ RadiusMode = N.mode
  /\ RemovingPairControlPoint = N.flag

Commit(N, op, kind, n, r) ==
  /\ ShapeName' = N.kind
  /\ RequiredNumberOfControlPoints' = N.req
  /\ MaximumNumberOfControlPoints' = N.max
  /\ Measurements' = N.meas
  /\ ControlPoints' = N.pts
  /\ RadiusMode' = N.mode
  /\ RemovingPairControlPoint' = N.flag
  /\ last' = Called(op, kind, n, r, N)

Init ==
  /\ Holds(New)
  /\ calls = 0
  /\ last = Called("New", "Sphere", 0, 0, New)

DoSetShapeName ==
  \E k \in InputShapeNames :
    /\ Commit(SetShapeName(Self, k), "SetShapeName", k, 0, 0)
    /\ UNCHANGED calls

HostAddControlPoint ==
  \E p \in InputPoints :
    /\ Len(ControlPoints) < MaxPoints
    /\ LET N == AddControlPoint(Self, p)
       IN /\ N.out = "ok"
          /\ Commit(N, "AddControlPoint", "", Len(ControlPoints), 0)
    /\ UNCHANGED calls

HostRemoveNthControlPoint ==
  \E n \in 0..(Len(ControlPoints) - 1) :
    /\ Commit([RemoveNthControlPoint(Self, n) EXCEPT !.out = "ok"],
              "RemoveNthControlPoint", "", n, 0)
    /\ UNCHANGED calls

HostUnsetNthControlPointPosition ==
  \E n \in 0..(Len(ControlPoints) - 1) :
    /\ ControlPoints[n + 1].defined
    /\ GetNumberOfUndefinedControlPoints(ControlPoints) < MaxUndefined
    /\ Commit([UnsetNthControlPointPosition(Self, n) EXCEPT !.out = "ok"],
              "UnsetNthControlPointPosition", "", n, 0)
    /\ UNCHANGED calls

\* The radius API. Any call may follow any other, whatever it returned;
\* calls counts them all, and a run makes MaxCalls of them at most.
DoSetRadiusMode ==
  \E m \in Modes :
    /\ calls < MaxCalls
    /\ Commit(SetRadiusMode(Self, m), "SetRadiusMode", m, 0, 0)
    /\ calls' = calls + 1

DoSetRadius ==
  \E r \in InputRadii :
    /\ calls < MaxCalls
    /\ \E N \in {SetRadius(Self, D(r))} :
         Commit(N, "SetRadius", "", 0, r) /\ calls' = calls + 1

DoSetInnerRadius ==
  \E r \in InputRadii :
    /\ calls < MaxCalls
    /\ \E N \in {SetInnerRadius(Self, D(r))} :
         Commit(N, "SetInnerRadius", "", 0, r) /\ calls' = calls + 1

DoSetOuterRadius ==
  \E r \in InputRadii :
    /\ calls < MaxCalls
    /\ \E N \in {SetOuterRadius(Self, D(r))} :
         Commit(N, "SetOuterRadius", "", 0, r) /\ calls' = calls + 1

DoSetRadiusAtNthControlPoint ==
  \E n \in (-1)..Len(ControlPoints), r \in InputRadii :
    /\ calls < MaxCalls
    /\ \E N \in {SetRadiusAtNthControlPoint(Self, n, D(r))} :
         Commit(N, "SetRadiusAtNthControlPoint", "", n, r) /\ calls' = calls + 1

\* The shape kind and the store: what the host and SetShapeName do.
NextStore ==
  \/ DoSetShapeName
  \/ HostAddControlPoint
  \/ HostRemoveNthControlPoint
  \/ HostUnsetNthControlPointPosition

\* The radius API.
NextRadius ==
  \/ DoSetRadiusMode
  \/ DoSetRadius
  \/ DoSetInnerRadius
  \/ DoSetOuterRadius
  \/ DoSetRadiusAtNthControlPoint

Next == NextStore \/ NextRadius

\* The whole machine, from the constructed node.
Spec == Init /\ [][Next]_vars

\* The machine without the radius API: kind changes and store calls.
SpecStore == Init /\ [][NextStore]_vars

(***************************************************************************)
(* The radius API from every node the store machine builds with at most    *)
(* MaxRadiusPoints control points: the constructed node, then              *)
(* SetShapeName(k), the points placed one by one, some positions unset,    *)
(* and the radius mode chosen.                                             *)
(***************************************************************************)
RECURSIVE AddAll(_, _)
AddAll(N, ps) ==
  IF ps = <<>> THEN N ELSE AddAll(AddControlPoint(N, Head(ps)), Tail(ps))

RECURSIVE UnsetAll(_, _)
UnsetAll(N, U) ==
  IF U = {} THEN N
  ELSE LET n == CHOOSE x \in U : \A y \in U : x <= y
       IN UnsetAll(UnsetNthControlPointPosition(N, n), U \ {n})

PointSeqs(k) == UNION {[1..j -> InputPoints] : j \in 0..k}

Built(k, m, ps, U) ==
  [SetRadiusMode(UnsetAll(AddAll(SetShapeName(New, k), ps), U), m)
     EXCEPT !.out = "", !.log = <<>>]

InitRadius ==
  \E k \in Kinds, m \in Modes, ps \in PointSeqs(MaxRadiusPoints) :
    \E U \in SUBSET (0..(Len(ps) - 1)) :
      /\ Cardinality(U) <= MaxUndefined
      /\ LET N == Built(k, m, ps, U)
         IN /\ Len(N.pts) = Len(ps)
            /\ Holds(N)
            /\ calls = 0
            /\ last = Called("Built", k, 0, 0, N)

SpecRadius == InitRadius /\ [][NextRadius]_vars

(***************************************************************************)
(* DescribeDiskPointSpacing asked of every node the host builds with at    *)
(* most MaxDescribePoints control points placed on and off one line        *)
(* through the origin, on both sides of it.                                *)
(***************************************************************************)
\* Distances from the origin: 0, 5, 10, 10 again on the other side, and
\* 3 * sqrt(2) off the line; the distances between the others and the point off
\* the line are roots too.
DescribeInputPoints ==
  {Vec(0, 0, 0), Vec(3, 4, 0), Vec(6, 8, 0), Vec(-6, -8, 0), Vec(3, 3, 0)}

DescribePointSeqs(k) == UNION {[1..j -> DescribeInputPoints] : j \in 0..k}

InitDescribe ==
  \E k \in Kinds, ps \in DescribePointSeqs(MaxDescribePoints) :
    \E U \in SUBSET (0..(Len(ps) - 1)) :
      /\ Cardinality(U) <= MaxUndefined
      /\ LET N == Built(k, "Centered", ps, U)
         IN /\ Len(N.pts) = Len(ps)
            /\ Holds(N)
            /\ calls = 0
            /\ last = Called("Built", k, 0, 0, N)

\* The call reads the node and answers; d is its answer.
DoDescribeDiskPointSpacing ==
  /\ LET d == DescribeDiskPointSpacing(Self)
     IN last' = [op |-> "DescribeDiskPointSpacing", was |-> ShapeName,
                 kind |-> "", n |-> 0, r |-> 0,
                 out |-> IF d.ok THEN "true" ELSE "false", log |-> <<>>,
                 d |-> d]
  /\ UNCHANGED <<ShapeName, RequiredNumberOfControlPoints,
                 MaximumNumberOfControlPoints, Measurements, ControlPoints,
                 RadiusMode, RemovingPairControlPoint, calls>>

NextDescribe == DoDescribeDiskPointSpacing

SpecDescribe == InitDescribe /\ [][NextDescribe]_vars

(***************************************************************************)
(* Host removals from every Tube of an even number of control points, at   *)
(* most MaxPoints, all defined. The point placed at index i is at          *)
(* (i, y, 0): its first coordinate tells which point of the original store *)
(* it is.                                                                  *)
(***************************************************************************)
TubeHeights == {0, 1}

TubePointSeqs(k) ==
  UNION {{[i \in 1..j |-> Vec(i - 1, y[i], 0)] : y \in [1..j -> TubeHeights]} :
           j \in {c \in 0..k : c % 2 = 0}}

InitTube ==
  \E m \in Modes, ps \in TubePointSeqs(MaxPoints) :
    LET N == Built("Tube", m, ps, {})
    IN /\ Holds(N)
       /\ calls = 0
       /\ last = Called("Built", "Tube", 0, 0, N)

NextTube == HostRemoveNthControlPoint

SpecTube == InitTube /\ [][NextTube]_vars

(***************************************************************************)
(* Properties                                                              *)
(***************************************************************************)
AllDefined(pts) == \A i \in DOMAIN pts : pts[i].defined

\* The store without the pair (2k, 2k + 1).
WithoutPair(pts, k) == SubSeq(pts, 1, 2 * k) \o SubSeq(pts, 2 * k + 3, Len(pts))

\* The maximum counts the registry table states for the bounded kinds.
TableMaximumCount(k) ==
  CASE k = "Sphere" -> 2 [] k = "Ring" -> 3 [] k = "Disk" -> 3

\* The measurement tables: <<name, enabled by default>>, in order.
TableMeasurements(k) ==
  CASE k = "Sphere" -> <<<<"radius", TRUE>>, <<"area", FALSE>>, <<"volume", FALSE>>>>
    [] k = "Ring" -> <<<<"radius", TRUE>>, <<"area", FALSE>>>>
    [] k = "Disk" -> <<<<"innerRadius", TRUE>>, <<"outerRadius", TRUE>>,
                       <<"width", FALSE>>, <<"area", FALSE>>,
                       <<"innerArea", FALSE>>, <<"outerArea", FALSE>>>>
    [] k = "Tube" -> <<<<"area", FALSE>>, <<"volume", TRUE>>>>

Declared(meas) == [i \in DOMAIN meas |-> <<meas[i].name, meas[i].enabled>>]

\* C1: after SetShapeKind(Tube), from any kind and any store, the control
\* point store is empty.
C1_TubeClearsStore ==
  (last.op = "SetShapeName" /\ last.kind = "Tube") => ControlPoints = <<>>

\* C2: SetShapeKind(k) for a bounded kind k leaves at most maximumCount(k)
\* control points, and they are the first min(oldCount, maximumCount(k))
\* points of the previous store, in their order.
C2_BoundedKindKeepsPrefix ==
  [][(last'.op = "SetShapeName" /\ last'.kind \in {"Sphere", "Ring", "Disk"}) =>
       LET m == TableMaximumCount(last'.kind)
       IN /\ Len(ControlPoints') <= m
          /\ ControlPoints' = SubSeq(ControlPoints, 1, Min(Len(ControlPoints), m))]_vars

\* C2 witness: a Tube store of more than two points was cut to the two points
\* of a Sphere (the removals reached the observer).
C2_Witness ==
  /\ last.op = "SetShapeName" /\ last.kind = "Sphere" /\ last.was = "Tube"
  /\ Len(ControlPoints) = 2
  /\ Len(last.log) >= 2

\* C3: SetShapeKind with a value that is no shape kind leaves the stored
\* shape kind, the required and maximum counts, the measurement declarations
\* and the control point store unchanged.
C3_UnknownKindChangesNothing ==
  [][(last'.op = "SetShapeName" /\ last'.kind \notin Kinds) =>
       /\ ShapeName' = ShapeName
       /\ RequiredNumberOfControlPoints' = RequiredNumberOfControlPoints
       /\ MaximumNumberOfControlPoints' = MaximumNumberOfControlPoints
       /\ Measurements' = Measurements
       /\ ControlPoints' = ControlPoints]_vars

\* C4: after SetShapeKind(new kind), from every old kind, the measurement
\* declarations are exactly the table of the new kind, in order.
C4_MeasurementsAreTheTable ==
  (last.op = "SetShapeName" /\ last.kind \in Kinds) =>
    Declared(Measurements) = TableMeasurements(last.kind)

\* C4 witness: a Disk, with its six declarations, was made a Tube.
C4_Witness ==
  /\ last.op = "SetShapeName" /\ last.was = "Disk" /\ last.kind = "Tube"
  /\ Len(Measurements) = 2

\* C5: on a Tube whose points are all defined, the host's removal of point i
\* ends with both points of the pair (2*(i div 2), 2*(i div 2) + 1) gone and
\* the others in their order; only when i was the last index of an odd-sized
\* store is point i alone gone.
C5_RemovalTakesThePair ==
  [][(/\ last'.op = "RemoveNthControlPoint"
      /\ ShapeName = "Tube"
      /\ AllDefined(ControlPoints)) =>
       LET i == last'.n
           count == Len(ControlPoints)
       IN ControlPoints' =
            IF i = count - 1 /\ count % 2 = 1
            THEN EraseNth(ControlPoints, i)
            ELSE WithoutPair(ControlPoints, i \div 2)]_vars

\* C5 witness: six defined Tube points, point 2 removed by the host, the
\* observer removed the partner: four points are left.
C5_Witness ==
  /\ last.op = "RemoveNthControlPoint" /\ last.n = 2
  /\ ShapeName = "Tube"
  /\ Len(ControlPoints) = 4
  /\ \E j \in DOMAIN last.log :
       /\ last.log[j].branch = "even"
       /\ last.log[j].countIn = 5
       /\ last.log[j].undefinedIn = 0

\* C6: an activation of the observer for a Tube removal that finds
\* RemovingPairControlPoint set, or the store empty, removes no control point
\* and leaves RemovingPairControlPoint false.
C6_GuardedActivationIsNoOp ==
  \A j \in DOMAIN last.log :
    LET e == last.log[j]
    IN (e.kind = "Tube" /\ e.undefinedIn = 0 /\ (e.flagIn \/ e.countIn = 0)) =>
         (e.countOut = e.countIn /\ ~e.flagOut)

\* C6 witness: the activation raised by the observer's own removal found the
\* flag set, with points left in the store.
C6_Witness ==
  \E j \in DOMAIN last.log :
    /\ last.log[j].kind = "Tube"
    /\ last.log[j].flagIn
    /\ last.log[j].countIn > 0
    /\ last.log[j].depth = 2

DAbs(a) == IF IsNaN(a) THEN NaN ELSE [a EXCEPT !.s = 0]

\* 2^-40: what "within floating-point tolerance" allows, relative to the
\* sizes of the two numbers compared.
Tolerance == Finite(0, -92, TwoTo52)

\* a and b differ by rounding at most: |a - b| <= Tolerance * (|a| + |b|).
\* NaN is near nothing.
Near(a, b) ==
  DLe(DAbs(DSub(a, b)), DMul(Tolerance, DAdd(DAbs(a), DAbs(b))))

\* Two positions that differ by rounding at most.
NearPoint(a, b) == \A i \in 1..3 : Near(a[i], b[i])

MidPoint(a, b) ==
  <<DDiv(DAdd(a[1], b[1]), D(2)), DDiv(DAdd(a[2], b[2]), D(2)),
    DDiv(DAdd(a[3], b[3]), D(2))>>

Length(a, b) == DSqrt(Distance2BetweenPoints(a, b))

\* x lies on the ray from o through a, o excluded: x - o is a positive
\* multiple of a - o, up to rounding.
OnRay(o, a, x) ==
  LET u == <<DSub(a[1], o[1]), DSub(a[2], o[2]), DSub(a[3], o[3])>>
      v == <<DSub(x[1], o[1]), DSub(x[2], o[2]), DSub(x[3], o[3])>>
      dot == DAdd(DAdd(DMul(u[1], v[1]), DMul(u[2], v[2])), DMul(u[3], v[3]))
  IN /\ Near(DMul(u[1], v[2]), DMul(u[2], v[1]))
     /\ Near(DMul(u[2], v[3]), DMul(u[3], v[2]))
     /\ Near(DMul(u[1], v[3]), DMul(u[3], v[1]))
     /\ DGt(dot, D(0))

\* The positions of pts and qts agree at every index outside keep.
SameOutside(pts, qts, keep) ==
  /\ Len(pts) = Len(qts)
  /\ \A i \in DOMAIN pts : (i - 1) \notin keep => pts[i] = qts[i]

\* C7: on a Disk with 3 defined control points, every SetInnerRadius or
\* SetOuterRadius call that went through leaves the disk described by
\* DescribeDiskPointSpacing with innerRadius < outerRadius, innerRadius being
\* the requested value after SetInnerRadius and outerRadius the requested
\* value after SetOuterRadius, up to rounding.
C7_DiskRadiiStayOrdered ==
  (last.op \in {"SetInnerRadius", "SetOuterRadius"} /\ last.out = "ok") =>
    LET d == DescribeDiskPointSpacing(Self)
    IN /\ d.ok
       /\ DLt(d.innerRadius, d.outerRadius)
       /\ last.op = "SetInnerRadius" => Near(d.innerRadius, D(last.r))
       /\ last.op = "SetOuterRadius" => Near(d.outerRadius, D(last.r))

\* The preconditions the radius mutations state, on the node as it is; d is
\* the answer of DescribeDiskPointSpacing and currentRadius the one of
\* GetRadiusAtNthControlPoint(n) on it.
RejectsSetRadius(r) == ShapeName = "Disk" \/ r <= 0

RejectsSetInnerRadius(r, d) ==
  \/ ShapeName # "Disk"
  \/ r <= 0
  \/ GetNumberOfDefinedControlPoints(ControlPoints) # 3
  \/ DGe(D(r), d.outerRadius)

RejectsSetOuterRadius(r, d) ==
  \/ ShapeName # "Disk"
  \/ r <= 0
  \/ GetNumberOfDefinedControlPoints(ControlPoints) # 3
  \/ DLe(D(r), d.innerRadius)

RejectsSetRadiusAtNthControlPoint(r, currentRadius) ==
  r <= 0 \/ currentRadius = D(-1)

\* C8: a radius mutation called while one of its stated preconditions is
\* violated is rejected and leaves the store as it was: SetRadius on a Disk or
\* with radius <= 0; SetInnerRadius and SetOuterRadius on another kind than
\* Disk, with radius <= 0, without exactly 3 defined points, with an inner
\* request >= outerRadius or an outer request <= innerRadius;
\* SetRadiusAtNthControlPoint with radius <= 0 or when
\* GetRadiusAtNthControlPoint(n) fails. The calls are made on every reachable
\* node, so after every call of a run, refused ones included.
C8_RejectedMutationWritesNothing ==
  /\ \A d \in {DescribeDiskPointSpacing(Self)} : \A r \in InputRadii :
       /\ RejectsSetRadius(r) =>
            LET N == SetRadius(Self, D(r))
            IN N.out # "ok" /\ N.pts = ControlPoints
       /\ RejectsSetInnerRadius(r, d) =>
            LET N == SetInnerRadius(Self, D(r))
            IN N.out # "ok" /\ N.pts = ControlPoints
       /\ RejectsSetOuterRadius(r, d) =>
            LET N == SetOuterRadius(Self, D(r))
            IN N.out # "ok" /\ N.pts = ControlPoints
  /\ \A n \in (-1)..Len(ControlPoints) :
       \A currentRadius \in {GetRadiusAtNthControlPoint(Self, n)} :
         \A r \in InputRadii :
           RejectsSetRadiusAtNthControlPoint(r, currentRadius) =>
             LET N == SetRadiusAtNthControlPoint(Self, n, D(r))
             IN N.out # "ok" /\ N.pts = ControlPoints

\* C8 witness: SetInnerRadius was refused on a Disk with 3 defined points
\* for a request that is not below the outer radius.
C8_Witness ==
  /\ last.op = "SetInnerRadius"
  /\ last.out = "Inner radius must be less than outer radius."
  /\ ShapeName = "Disk"
  /\ GetNumberOfDefinedControlPoints(ControlPoints) = 3
  /\ \E r \in InputRadii :
       r > 0 /\ RejectsSetInnerRadius(r, DescribeDiskPointSpacing(Self))

\* C9: on a shape whose radius is given by points 0 and 1 (Sphere, Ring),
\* SetRadius(r) with r > 0 leaves the radius read back from the store equal
\* to r up to rounding (|p0,p1| in Centered mode, |p0,p1|/2 in
\* Circumferential mode); in
\* Centered mode point 0 is unchanged and point 1 is on the ray p0->p1, in
\* Circumferential mode the midpoint of p0,p1 is unchanged; no other point
\* moves.
C9_SetRadiusRoundTrip ==
  [][(/\ last'.op = "SetRadius"
      /\ last'.out = "ok"
      /\ ShapeName \in {"Sphere", "Ring"}
      /\ Len(ControlPoints) >= 2) =>
       LET p0 == GetNthControlPointPositionWorld(ControlPoints, 0)
           p1 == GetNthControlPointPositionWorld(ControlPoints, 1)
           q0 == GetNthControlPointPositionWorld(ControlPoints', 0)
           q1 == GetNthControlPointPositionWorld(ControlPoints', 1)
       IN IF RadiusMode = "Centered"
          THEN /\ Near(Length(q0, q1), D(last'.r))
               /\ SameOutside(ControlPoints, ControlPoints', {1})
               /\ OnRay(p0, p1, q1)
          ELSE /\ Near(DDiv(Length(q0, q1), D(2)), D(last'.r))
               /\ SameOutside(ControlPoints, ControlPoints', {0, 1})
               /\ NearPoint(MidPoint(p0, p1), MidPoint(q0, q1))]_vars

\* A Tube on which GetRadiusAtNthControlPoint answers: at least 4 defined
\* points, none undefined, an even count.
ValidTube ==
  /\ ShapeName = "Tube"
  /\ GetNumberOfUndefinedControlPoints(ControlPoints) = 0
  /\ GetNumberOfDefinedControlPoints(ControlPoints) >= 4
  /\ GetNumberOfDefinedControlPoints(ControlPoints) % 2 = 0

\* N being the node after SetRadiusAtNthControlPoint(n, r) on the current
\* node: the radius of the pair (n, n + 1) is r and the pair's midpoint is
\* kept, both up to rounding, and no other point has moved.
RoundTripAtNthControlPoint(N, n, r) ==
  LET p1 == GetNthControlPointPositionWorld(ControlPoints, n)
      p2 == GetNthControlPointPositionWorld(ControlPoints, n + 1)
      q1 == GetNthControlPointPositionWorld(N.pts, n)
      q2 == GetNthControlPointPositionWorld(N.pts, n + 1)
  IN /\ Near(GetRadiusAtNthControlPoint(N, n), D(r))
     /\ NearPoint(MidPoint(p1, p2), MidPoint(q1, q2))
     /\ SameOutside(ControlPoints, N.pts, {n, n + 1})

EvenIndices == {n \in 0..(Len(ControlPoints) - 1) : n % 2 = 0}

\* C10 as stated: on a Tube with at least 4 defined points, no undefined
\* point and an even count, for every valid even n and every r > 0,
\* SetRadiusAtNthControlPoint(n, r) then GetRadiusAtNthControlPoint(n) returns
\* r within tolerance, the midpoint of the pair (n, n + 1) is kept and no
\* point outside the pair moves.
C10_SegmentRoundTrip ==
  ValidTube =>
    \A n \in EvenIndices : \A r \in InputRadii :
      r > 0 =>
        RoundTripAtNthControlPoint(SetRadiusAtNthControlPoint(Self, n, D(r)), n, r)

\* C10 amended: the same, for the pairs whose current radius is a positive
\* number (two distinct positions); on a pair of coincident points, whose
\* current radius is 0, the call is refused and writes nothing. The call is
\* made on every reachable node, so after every call of a run as well.
C10_SegmentRoundTripOffCoincidence ==
  ValidTube =>
    \A n \in EvenIndices :
      \A currentRadius \in {GetRadiusAtNthControlPoint(Self, n)} :
        \A r \in InputRadii :
          r > 0 =>
            \A N \in {SetRadiusAtNthControlPoint(Self, n, D(r))} :
              /\ DGt(currentRadius, D(0)) =>
                   N.out = "ok" /\ RoundTripAtNthControlPoint(N, n, r)
              /\ DEq(currentRadius, D(0)) =>
                   N.out # "ok" /\ N.pts = ControlPoints

\* C10 witness: SetRadiusAtNthControlPoint went through on the second pair of
\* a 4-point Tube, whose radius now reads as the requested one, the first
\* pair being a pair of coincident points.
C10_Witness ==
  /\ last.op = "SetRadiusAtNthControlPoint"
  /\ last.out = "ok"
  /\ last.n = 2
  /\ ValidTube
  /\ Len(ControlPoints) = 4
  /\ Near(GetRadiusAtNthControlPoint(Self, 2), D(last.r))
  /\ ControlPoints[1].pos = ControlPoints[2].pos

\* The store with the positions at indices 1 and 2 exchanged.
SwappedDisk(pts) ==
  [pts EXCEPT ![2] = pts[3], ![3] = pts[2]]

\* C11: DescribeDiskPointSpacing succeeds only when the kind is Disk and
\* exactly 3 control points are defined; when it succeeds innerRadius <=
\* outerRadius, {innerRadius, outerRadius} is the same for the store with the
\* positions at indices 1 and 2 swapped, and on a tie the position at index 1
\* is the closestPoint; the call changes no state.
C11_DescribeDiskPointSpacing ==
  /\ [](last.op = "DescribeDiskPointSpacing" /\ last.d.ok =>
          /\ ShapeName = "Disk"
          /\ GetNumberOfDefinedControlPoints(ControlPoints) = 3
          /\ DLe(last.d.innerRadius, last.d.outerRadius)
          /\ LET s == DescribeDiskPointSpacing(
                        [Self EXCEPT !.pts = SwappedDisk(ControlPoints)])
             IN /\ s.ok
                /\ {s.innerRadius, s.outerRadius} =
                     {last.d.innerRadius, last.d.outerRadius}
          /\ LET p1 == GetNthControlPointPositionWorld(ControlPoints, 0)
                 p2 == GetNthControlPointPositionWorld(ControlPoints, 1)
                 p3 == GetNthControlPointPositionWorld(ControlPoints, 2)
             IN DEq(Length(p1, p2), Length(p1, p3)) =>
                  /\ last.d.closestPoint = p2
                  /\ last.d.farthestPoint = p3)
  /\ [][last'.op = "DescribeDiskPointSpacing" =>
          UNCHANGED <<ShapeName, RequiredNumberOfControlPoints,
                      MaximumNumberOfControlPoints, Measurements,
                      ControlPoints, RadiusMode, RemovingPairControlPoint>>]_vars

\* C11 witness: the call succeeded on a tie between two different positions,
\* on either side of the center.
C11_Witness ==
  /\ last.op = "DescribeDiskPointSpacing"
  /\ last.d.ok
  /\ DEq(last.d.innerRadius, last.d.outerRadius)
  /\ DGt(last.d.innerRadius, D(0))
  /\ ControlPoints[2].pos # ControlPoints[3].pos
  /\ last.d.closestPoint = ControlPoints[2].pos

\* C12: handling one host removal of a Tube control point performs at most
\* one compensating removal: the activation raised by the compensating
\* removal (depth 2) removes nothing, no activation is nested deeper, the
\* activation raised by the host's removal (depth 1) never finds
\* RemovingPairControlPoint set, and RemovingPairControlPoint is false
\* whenever control is back with the host.
C12_OneCompensatingRemoval ==
  /\ ~RemovingPairControlPoint
  /\ (last.op = "RemoveNthControlPoint" /\ last.was = "Tube") =>
       /\ Len(last.log) <= 2
       /\ \A j \in DOMAIN last.log :
            LET e == last.log[j]
            IN /\ e.depth \in {1, 2}
               /\ e.depth = 1 => (~e.flagIn /\ e.countIn - e.countOut <= 1)
               /\ e.depth = 2 => (e.countOut = e.countIn /\ ~e.flagOut)

\* C12 witness: the host removed an odd-indexed point of a Tube, the observer
\* removed its partner, the nested activation returned at depth 2, and points
\* are left for the next removal.
C12_Witness ==
  /\ last.op = "RemoveNthControlPoint"
  /\ last.was = "Tube"
  /\ Len(last.log) = 2
  /\ last.log[1].depth = 2
  /\ last.log[2].depth = 1
  /\ last.log[2].branch = "odd"
  /\ last.log[2].countOut = last.log[2].countIn - 1
  /\ Len(ControlPoints) >= 2
  /\ ~RemovingPairControlPoint

\* The index a control point of SpecTube had in the original store.
Origin(cp) == CHOOSE i \in 0..(MaxPoints - 1) : cp.pos[1] = D(i)

\* C13: from a Tube with an even number of control points, all defined,
\* after any sequence of host removals of one point (each with its
\* notification handled), the count is even and the points left are whole
\* original pairs (2k, 2k + 1), adjacent and in their original order.
C13_WholePairsRemain ==
  LET count == Len(ControlPoints)
  IN /\ count % 2 = 0
     /\ AllDefined(ControlPoints)
     /\ \A j \in 1..(count \div 2) :
          LET first == Origin(ControlPoints[2 * j - 1])
              second == Origin(ControlPoints[2 * j])
          IN /\ first % 2 = 0
             /\ second = first + 1
             /\ j > 1 => Origin(ControlPoints[2 * j - 2]) < first

\* C13 witness: two host removals, the second at an odd index, left the
\* middle pair (2, 3) of a 6-point Tube.
C13_Witness ==
  /\ last.op = "RemoveNthControlPoint"
  /\ last.n = 3
  /\ Len(ControlPoints) = 2
  /\ Origin(ControlPoints[1]) = 2
  /\ Origin(ControlPoints[2]) = 3

\* The indices whose position differs between two stores of one length.
Moved(pts, qts) == {i \in 0..(Len(pts) - 1) : pts[i + 1].pos # qts[i + 1].pos}

\* C14: a SetInnerRadius or SetOuterRadius call that went through on a Disk
\* moves one control point and no other: the moved point is at index 1 or 2
\* and is the one at the inner (SetInnerRadius) or outer (SetOuterRadius)
\* radius from the center; the center, index 0, and the other point keep
\* their positions, wherever the 3 defined points are placed. (A request for
\* the radius the disk already has, up to rounding, may move the point by
\* nothing.)
C14_OnePointMoves ==
  [][(last'.op \in {"SetInnerRadius", "SetOuterRadius"} /\ last'.out = "ok") =>
       LET d == DescribeDiskPointSpacing(Self)
           current == IF last'.op = "SetInnerRadius" THEN d.innerRadius
                      ELSE d.outerRadius
           moved == Moved(ControlPoints, ControlPoints')
           center == GetNthControlPointPositionWorld(ControlPoints, 0)
       IN /\ Len(ControlPoints') = Len(ControlPoints)
          /\ moved \subseteq {1, 2}
          /\ Cardinality(moved) <= 1
          /\ ~Near(current, D(last'.r)) => Cardinality(moved) = 1
          /\ \A i \in moved :
               DEq(Length(center, GetNthControlPointPositionWorld(ControlPoints, i)),
                   current)]_vars

\* C15: SetRadius(r) with r > 0 on another kind than Disk whose store holds
\* fewer than 2 control points changes no control point position, in either
\* radius mode.
C15_SetRadiusNeedsTwoPoints ==
  [][(/\ last'.op = "SetRadius"
      /\ last'.r > 0
      /\ ShapeName # "Disk"
      /\ Len(ControlPoints) < 2) => ControlPoints' = ControlPoints]_vars

====
